---- MODULE Spec2Model ----
(***************************************************************************)
(* A model of turf's settings store (turf_internals/src/settings.rs) and   *)
(* of the macro front end (turf_macros/src/lib.rs).                        *)
(*                                                                         *)
(*   Spec      Settings::get() called by several threads, interleaved at   *)
(*             every access of the two OnceLock slots                      *)
(*   SeqSpec   the same calls, one call running at a time                  *)
(*   CodecSpec From<BrowserVersion> for u32                                *)
(*   DepsSpec  handle_style_sheet and the macro that consumes its result   *)
(*   DiagSpec  to_compile_error walking an error's chain of sources        *)
(***************************************************************************)
EXTENDS Integers, Sequences, FiniteSets, TLC

(***************************************************************************)
(* Bounds of the model.                                                    *)
(***************************************************************************)
NumThreads == 2

MaxCalls == 3

MaxTracked == 3

MaxChain == 4

(***************************************************************************)
(* Option<T>: None is the empty sequence, Some(x) the sequence <<x>>.      *)
(***************************************************************************)
None == <<>>

Some(x) == <<x>>

IsSome(o) == o # None

Unwrap(o) == o[1]

\* Option::or
OptionOr(a, b) == IF IsSome(a) THEN a ELSE b

(***************************************************************************)
(* Settings.  A Settings value is told apart by its class_names.template,  *)
(* as in the tests of settings.rs ("abc", "def").                          *)
(***************************************************************************)
DEFAULT_CLASS_NAME_TEMPLATE == "class-<id>"

SettingsDefault == DEFAULT_CLASS_NAME_TEMPLATE

ProfileValues == {"abc", "def"}

OptionalProfiles == {None} \cup {Some(s) : s \in ProfileValues}

\* What crate::manifest::cargo_manifest() yields: an error, or the manifest
\* with its optional package.metadata.turf_dev and package.metadata.turf.
ManifestError == [error |-> TRUE]

Manifests ==
    {ManifestError} \cup
    [error : {FALSE}, turf_dev : OptionalProfiles, turf : OptionalProfiles]

Threads == 1 .. NumThreads

VARIABLES
    manifest,            \* the Cargo manifest of the process (static)
    debug_assertions,    \* cfg!(debug_assertions) of the build
    TURF_SETTINGS,       \* OnceLock<Settings>: None while empty
    TURF_DEV_SETTINGS,   \* OnceLock<Settings>: None while empty
    pc,                  \* per thread: where it stands inside Settings::get()
    dev_settings_maybe,  \* per thread: local of dev_profile_settings
    prod_settings_maybe, \* per thread: local of prod_profile_settings
    dev_settings,        \* per thread: Ok value of dev_profile_settings
    prod_settings,       \* per thread: Ok value of prod_profile_settings
    ret,                 \* per thread: what the last Settings::get() returned
    calls,               \* number of Settings::get() calls started
    dev_loads,           \* cargo_manifest() calls made by dev_profile_settings
    prod_loads,          \* cargo_manifest() calls made by prod_profile_settings
    dev_resolved,        \* the Ok values dev_profile_settings has returned
    prod_resolved,       \* the Ok values prod_profile_settings has returned
    returned             \* the Ok values Settings::get() has returned

settings_vars ==
    <<manifest, debug_assertions, TURF_SETTINGS, TURF_DEV_SETTINGS, pc,
      dev_settings_maybe, prod_settings_maybe, dev_settings, prod_settings,
      ret, calls, dev_loads, prod_loads, dev_resolved, prod_resolved, returned>>

VARIABLES
    version,             \* the BrowserVersion handed to u32::from
    encoded              \* Option<u32>: the encoding, once computed

codec_vars == <<version, encoded>>

VARIABLES
    style_sheet,         \* the StyleSheetKind handed to handle_style_sheet
    compile_succeeds,    \* whether turf_internals::style_sheet returns Ok
    tracked,             \* what turf_internals::get_untracked_load_paths returns
    hs_pc,               \* where the macro stands
    compiled,            \* Option<CompiledStyleSheet>: local of handle_style_sheet
    tracker_consulted,   \* whether get_untracked_load_paths has been called
    handled,             \* Option<Result<ProcessedStyleSheet, Error>>
    macro_output         \* Option of the tokens the macro returns

deps_vars ==
    <<style_sheet, compile_succeeds, tracked, hs_pc, compiled,
      tracker_consulted, handled, macro_output>>

VARIABLES
    error_chain,         \* Display texts of the error and of its sources
    message,             \* the lines of the diagnostic built so far
    curr_err,            \* Option: index into error_chain
    diag_pc              \* where to_compile_error stands

diag_vars == <<error_chain, message, curr_err, diag_pc>>

vars == <<settings_vars, codec_vars, deps_vars, diag_vars>>

\* Result<Settings, SettingsError> of one call; Pending while it runs.
Pending == <<>>

Ok(x) == <<"Ok", x>>

Err == <<"Err">>

IsOk(r) == r # Pending /\ r[1] = "Ok"

(***************************************************************************)
(* Settings::choose_settings                                               *)
(***************************************************************************)
choose_settings_dev_in_release(dev, prod, is_debug_build) ==
    IF IsSome(OptionOr(dev, prod))
    THEN Unwrap(OptionOr(dev, prod))
    ELSE SettingsDefault

choose_settings(dev, prod, is_debug_build) ==
    IF IsSome(OptionOr(dev, prod)) /\ is_debug_build
    THEN Unwrap(OptionOr(dev, prod))
    ELSE IF IsSome(prod) /\ ~is_debug_build
         THEN Unwrap(prod)
         ELSE SettingsDefault

(***************************************************************************)
(* OnceLock::set: stores the value when the cell is empty and reports Ok;  *)
(* leaves a populated cell alone and reports Err.                          *)
(***************************************************************************)
OnceLockSetTaking(cell, value) ==
    IF cell = None
    THEN [cell |-> Some(value), ok |-> TRUE]
    ELSE [cell |-> None, ok |-> FALSE]

OnceLockSet(cell, value) ==
    IF cell = None
    THEN [cell |-> Some(value), ok |-> TRUE]
    ELSE [cell |-> cell, ok |-> FALSE]

(***************************************************************************)
(* State after process start: both slots empty, no call running.           *)
(***************************************************************************)
SettingsInit ==
    /\ manifest \in Manifests
    /\ debug_assertions \in BOOLEAN
    /\ TURF_SETTINGS = None
    /\ TURF_DEV_SETTINGS = None
    /\ pc = [t \in Threads |-> "idle"]
    /\ dev_settings_maybe = [t \in Threads |-> None]
    /\ prod_settings_maybe = [t \in Threads |-> None]
    /\ dev_settings = [t \in Threads |-> None]
    /\ prod_settings = [t \in Threads |-> None]
    /\ ret = [t \in Threads |-> Pending]
    /\ calls = 0
    /\ dev_loads = 0
    /\ prod_loads = 0
    /\ dev_resolved = {}
    /\ prod_resolved = {}
    /\ returned = {}

\* A thread enters Settings::get().
Get(t) ==
    /\ pc[t] = "idle"
    /\ calls < MaxCalls
    /\ calls' = calls + 1
    /\ pc' = [pc EXCEPT ![t] = "dev_get"]
    /\ dev_settings_maybe' = [dev_settings_maybe EXCEPT ![t] = None]
    /\ prod_settings_maybe' = [prod_settings_maybe EXCEPT ![t] = None]
    /\ dev_settings' = [dev_settings EXCEPT ![t] = None]
    /\ prod_settings' = [prod_settings EXCEPT ![t] = None]
    /\ ret' = [ret EXCEPT ![t] = Pending]
    /\ UNCHANGED <<manifest, debug_assertions, TURF_SETTINGS, TURF_DEV_SETTINGS,
                   dev_loads, prod_loads, dev_resolved, prod_resolved, returned>>
    /\ UNCHANGED <<codec_vars, deps_vars, diag_vars>>

\* The slot dev_profile_settings looks into first.
DevLookupWrongSlot == TURF_SETTINGS

DevLookup == TURF_DEV_SETTINGS

\* dev_profile_settings: if let Some(..) = TURF_DEV_SETTINGS.get() { return }
DevGet(t) ==
    /\ pc[t] = "dev_get"
    /\ IF IsSome(DevLookup)
       THEN /\ dev_settings' = [dev_settings EXCEPT ![t] = DevLookup]
            /\ dev_resolved' = dev_resolved \cup {DevLookup}
            /\ pc' = [pc EXCEPT ![t] = "prod_get"]
       ELSE /\ pc' = [pc EXCEPT ![t] = "dev_load"]
            /\ UNCHANGED <<dev_settings, dev_resolved>>
    /\ UNCHANGED <<manifest, debug_assertions, TURF_SETTINGS, TURF_DEV_SETTINGS,
                   dev_settings_maybe, prod_settings_maybe, prod_settings, ret,
                   calls, dev_loads, prod_loads, prod_resolved, returned>>
    /\ UNCHANGED <<codec_vars, deps_vars, diag_vars>>

\* dev_profile_settings: crate::manifest::cargo_manifest()? ... .turf_dev
DevLoad(t) ==
    /\ pc[t] = "dev_load"
    /\ dev_loads' = dev_loads + 1
    /\ IF manifest.error
       THEN /\ ret' = [ret EXCEPT ![t] = Err]
            /\ pc' = [pc EXCEPT ![t] = "idle"]
            /\ UNCHANGED dev_settings_maybe
       ELSE /\ dev_settings_maybe' =
                   [dev_settings_maybe EXCEPT ![t] = manifest.turf_dev]
            /\ pc' = [pc EXCEPT ![t] = "dev_set"]
            /\ UNCHANGED ret
    /\ UNCHANGED <<manifest, debug_assertions, TURF_SETTINGS, TURF_DEV_SETTINGS,
                   prod_settings_maybe, dev_settings, prod_settings, calls,
                   prod_loads, dev_resolved, prod_resolved, returned>>
    /\ UNCHANGED <<codec_vars, deps_vars, diag_vars>>

\* dev_profile_settings: TURF_DEV_SETTINGS.set(..).expect(..); Ok(maybe)
DevSet(t) ==
    /\ pc[t] = "dev_set"
    /\ IF IsSome(dev_settings_maybe[t])
       THEN LET r == OnceLockSet(TURF_DEV_SETTINGS, Unwrap(dev_settings_maybe[t]))
            IN  /\ TURF_DEV_SETTINGS' = r.cell
                /\ IF r.ok
                   THEN /\ dev_settings' =
                               [dev_settings EXCEPT ![t] = dev_settings_maybe[t]]
                        /\ dev_resolved' = dev_resolved \cup {dev_settings_maybe[t]}
                        /\ pc' = [pc EXCEPT ![t] = "prod_get"]
                   ELSE /\ pc' = [pc EXCEPT ![t] = "panicked"]
                        /\ UNCHANGED <<dev_settings, dev_resolved>>
       ELSE /\ dev_settings' = [dev_settings EXCEPT ![t] = None]
            /\ dev_resolved' = dev_resolved \cup {None}
            /\ pc' = [pc EXCEPT ![t] = "prod_get"]
            /\ UNCHANGED TURF_DEV_SETTINGS
    /\ UNCHANGED <<manifest, debug_assertions, TURF_SETTINGS, dev_settings_maybe,
                   prod_settings_maybe, prod_settings, ret, calls, dev_loads,
                   prod_loads, prod_resolved, returned>>
    /\ UNCHANGED <<codec_vars, deps_vars, diag_vars>>

\* The slot prod_profile_settings looks into first.
ProdLookupWrongSlot == TURF_DEV_SETTINGS

ProdLookup == TURF_SETTINGS

\* prod_profile_settings: if let Some(..) = TURF_SETTINGS.get() { return }
ProdGet(t) ==
    /\ pc[t] = "prod_get"
    /\ IF IsSome(ProdLookup)
       THEN /\ prod_settings' = [prod_settings EXCEPT ![t] = ProdLookup]
            /\ prod_resolved' = prod_resolved \cup {ProdLookup}
            /\ pc' = [pc EXCEPT ![t] = "choose"]
       ELSE /\ pc' = [pc EXCEPT ![t] = "prod_load"]
            /\ UNCHANGED <<prod_settings, prod_resolved>>
    /\ UNCHANGED <<manifest, debug_assertions, TURF_SETTINGS, TURF_DEV_SETTINGS,
                   dev_settings_maybe, prod_settings_maybe, dev_settings, ret,
                   calls, dev_loads, prod_loads, dev_resolved, returned>>
    /\ UNCHANGED <<codec_vars, deps_vars, diag_vars>>

\* prod_profile_settings: crate::manifest::cargo_manifest()? ... .turf
ProdLoad(t) ==
    /\ pc[t] = "prod_load"
    /\ prod_loads' = prod_loads + 1
    /\ IF manifest.error
       THEN /\ ret' = [ret EXCEPT ![t] = Err]
            /\ pc' = [pc EXCEPT ![t] = "idle"]
            /\ UNCHANGED prod_settings_maybe
       ELSE /\ prod_settings_maybe' =
                   [prod_settings_maybe EXCEPT ![t] = manifest.turf]
            /\ pc' = [pc EXCEPT ![t] = "prod_set"]
            /\ UNCHANGED ret
    /\ UNCHANGED <<manifest, debug_assertions, TURF_SETTINGS, TURF_DEV_SETTINGS,
                   dev_settings_maybe, dev_settings, prod_settings, calls,
                   dev_loads, dev_resolved, prod_resolved, returned>>
    /\ UNCHANGED <<codec_vars, deps_vars, diag_vars>>

\* prod_profile_settings: TURF_SETTINGS.set(..).expect(..); Ok(maybe)
ProdSet(t) ==
    /\ pc[t] = "prod_set"
    /\ IF IsSome(prod_settings_maybe[t])
       THEN LET r == OnceLockSet(TURF_SETTINGS, Unwrap(prod_settings_maybe[t]))
            IN  /\ TURF_SETTINGS' = r.cell
                /\ IF r.ok
                   THEN /\ prod_settings' =
                               [prod_settings EXCEPT ![t] = prod_settings_maybe[t]]
                        /\ prod_resolved' =
                               prod_resolved \cup {prod_settings_maybe[t]}
                        /\ pc' = [pc EXCEPT ![t] = "choose"]
                   ELSE /\ pc' = [pc EXCEPT ![t] = "panicked"]
                        /\ UNCHANGED <<prod_settings, prod_resolved>>
       ELSE /\ prod_settings' = [prod_settings EXCEPT ![t] = None]
            /\ prod_resolved' = prod_resolved \cup {None}
            /\ pc' = [pc EXCEPT ![t] = "choose"]
            /\ UNCHANGED TURF_SETTINGS
    /\ UNCHANGED <<manifest, debug_assertions, TURF_DEV_SETTINGS,
                   dev_settings_maybe, prod_settings_maybe, dev_settings, ret,
                   calls, dev_loads, prod_loads, dev_resolved, returned>>
    /\ UNCHANGED <<codec_vars, deps_vars, diag_vars>>

\* get: Ok(Self::choose_settings(dev_settings, prod_settings, cfg!(..)))
Choose(t) ==
    /\ pc[t] = "choose"
    /\ LET cfg == choose_settings(dev_settings[t], prod_settings[t],
                                  debug_assertions)
       IN  /\ ret' = [ret EXCEPT ![t] = Ok(cfg)]
           /\ returned' = returned \cup {cfg}
    /\ pc' = [pc EXCEPT ![t] = "idle"]
    /\ UNCHANGED <<manifest, debug_assertions, TURF_SETTINGS, TURF_DEV_SETTINGS,
                   dev_settings_maybe, prod_settings_maybe, dev_settings,
                   prod_settings, calls, dev_loads, prod_loads, dev_resolved,
                   prod_resolved>>
    /\ UNCHANGED <<codec_vars, deps_vars, diag_vars>>

Step(t) ==
    \/ Get(t)
    \/ DevGet(t)
    \/ DevLoad(t)
    \/ DevSet(t)
    \/ ProdGet(t)
    \/ ProdLoad(t)
    \/ ProdSet(t)
    \/ Choose(t)

\* No other thread is inside Settings::get().
Alone(t) == \A u \in Threads \ {t} : pc[u] = "idle"

\* A call that starts only when no other call is running.
SeqGet(t) == Alone(t) /\ Get(t)

SeqStep(t) ==
    \/ SeqGet(t)
    \/ DevGet(t)
    \/ DevLoad(t)
    \/ DevSet(t)
    \/ ProdGet(t)
    \/ ProdLoad(t)
    \/ ProdSet(t)
    \/ Choose(t)

(***************************************************************************)
(* Browser target codec: impl From<BrowserVersion> for u32.                *)
(***************************************************************************)
\* Every value of a u8 component.
U8 == 0 .. 255

\* Sample u8 values for the other components of a version while one component
\* ranges over all of u8: both ends of the range, the values of the documented
\* examples, and values with several bits set.
U8Samples == {0, 1, 2, 3, 5, 30, 255}

BrowserVersions ==
    [shape : {"Major"}, fields : {<<a>> : a \in U8}]
    \cup [shape : {"MajorSingleValueArray"}, fields : {<<a>> : a \in U8}]
    \cup [shape : {"MajorMinor"},
          fields : (U8 \X U8Samples) \cup (U8Samples \X U8)]
    \cup [shape : {"MajorMinorPatch"},
          fields : (U8 \X U8Samples \X U8Samples)
                   \cup (U8Samples \X U8 \X U8Samples)
                   \cup (U8Samples \X U8Samples \X U8)]

U32Bits == 32

ByteMask == 255

MajorShift == 16

MinorShift == 8

RECURSIVE Pow2(_)
Pow2(n) == IF n = 0 THEN 1 ELSE 2 * Pow2(n - 1)

\* a & b on u32, bit by bit
RECURSIVE BitAndN(_, _, _)
BitAndN(a, b, n) ==
    IF n = 0
    THEN 0
    ELSE (IF a % 2 = 1 /\ b % 2 = 1 THEN 1 ELSE 0)
         + 2 * BitAndN(a \div 2, b \div 2, n - 1)

BitAnd(a, b) == BitAndN(a, b, U32Bits)

\* a | b on u32, bit by bit
RECURSIVE BitOrN(_, _, _)
BitOrN(a, b, n) ==
    IF n = 0
    THEN 0
    ELSE (IF a % 2 = 1 \/ b % 2 = 1 THEN 1 ELSE 0)
         + 2 * BitOrN(a \div 2, b \div 2, n - 1)

BitOr(a, b) == BitOrN(a, b, U32Bits)

\* a << n on u32: the bits shifted past bit 31 are lost, so only the low
\* 32 - n bits of a are kept: (a * 2^n) mod 2^32 = (a mod 2^(32 - n)) * 2^n
Shl(a, n) == (a % Pow2(U32Bits - n)) * Pow2(n)

\* let version = match value { .. }
Normalize(value) ==
    CASE value.shape = "Major" -> <<value.fields[1], 0, 0>>
      [] value.shape = "MajorSingleValueArray" -> <<value.fields[1], 0, 0>>
      [] value.shape = "MajorMinor" -> <<value.fields[1], value.fields[2], 0>>
      [] value.shape = "MajorMinorPatch" ->
            <<value.fields[1], value.fields[2], value.fields[3]>>

\* (v.0 as u32 & 0xff) << 8 | (v.1 as u32 & 0xff) << 8 | (v.2 as u32 & 0xff)
EncodeMajorShiftedAsMinor(value) ==
    LET v == Normalize(value)
    IN  BitOr(BitOr(Shl(BitAnd(v[1], ByteMask), MinorShift),
                    Shl(BitAnd(v[2], ByteMask), MinorShift)),
              BitAnd(v[3], ByteMask))

\* (v.0 as u32 & 0xff) << 16 | (v.1 as u32 & 0xff) << 8 | (v.2 as u32 & 0xff)
Encode(value) ==
    LET v == Normalize(value)
    IN  BitOr(BitOr(Shl(BitAnd(v[1], ByteMask), MajorShift),
                    Shl(BitAnd(v[2], ByteMask), MinorShift)),
              BitAnd(v[3], ByteMask))

CodecInit ==
    /\ version \in BrowserVersions
    /\ encoded = None

CodecIdle ==
    /\ version = [shape |-> "Major", fields |-> <<0>>]
    /\ encoded = None

\* u32::from(version)
EncodeVersion ==
    /\ encoded = None
    /\ encoded' = Some(Encode(version))
    /\ UNCHANGED version
    /\ UNCHANGED <<settings_vars, deps_vars, diag_vars>>

(***************************************************************************)
(* handle_style_sheet and the macros that call it.                         *)
(***************************************************************************)
PrimaryPath == "style.scss"

PartialPath == "_partial.scss"

OtherPath == "_other.scss"

Paths == {PrimaryPath, PartialPath, OtherPath}

PathLists == UNION {[1 .. n -> Paths] : n \in 0 .. MaxTracked}

File(path) == [kind |-> "File", content |-> path]

Inline(text) == [kind |-> "Inline", content |-> text]

StyleSheetKinds == {File(PrimaryPath), Inline(".a { color: red; }")}

\* Result<Vec<PathBuf>, LoadPathTrackingError>
TrackerResults ==
    {[ok |-> FALSE, values |-> <<>>]} \cup [ok : {TRUE}, values : PathLists]

\* CompiledStyleSheet returned by turf_internals::style_sheet
CompiledStyleSheet(kind) ==
    [css |-> "css", class_names |-> "class_names", original_style_sheet |-> kind]

\* let untracked_load_paths = { let mut values = ..; if let File(p) = .. }
UntrackedLoadPathsWithoutPrimary(values, original_style_sheet) == values

UntrackedLoadPaths(values, original_style_sheet) ==
    IF original_style_sheet.kind = "File"
    THEN Append(values, original_style_sheet.content)
    ELSE values

\* create_include_bytes: one include_bytes!(..) item for each path, in order
create_include_bytes(untracked_load_paths) ==
    [i \in DOMAIN untracked_load_paths |->
        <<"include_bytes!", untracked_load_paths[i]>>]

DepsInit ==
    /\ style_sheet \in StyleSheetKinds
    /\ compile_succeeds \in BOOLEAN
    /\ tracked \in TrackerResults
    /\ hs_pc = "style_sheet"
    /\ compiled = None
    /\ tracker_consulted = FALSE
    /\ handled = None
    /\ macro_output = None

DepsIdle ==
    /\ style_sheet = Inline("")
    /\ compile_succeeds = FALSE
    /\ tracked = [ok |-> FALSE, values |-> <<>>]
    /\ hs_pc = "idle"
    /\ compiled = None
    /\ tracker_consulted = FALSE
    /\ handled = None
    /\ macro_output = None

\* handle_style_sheet: turf_internals::style_sheet(..).map_err(Error::Turf)?
HandleCompile ==
    /\ hs_pc = "style_sheet"
    /\ IF compile_succeeds
       THEN /\ compiled' = Some(CompiledStyleSheet(style_sheet))
            /\ hs_pc' = "get_untracked_load_paths"
            /\ UNCHANGED handled
       ELSE /\ handled' = Some([ok |-> FALSE, error |-> "Turf"])
            /\ hs_pc' = "handled"
            /\ UNCHANGED compiled
    /\ UNCHANGED <<style_sheet, compile_succeeds, tracked, tracker_consulted,
                   macro_output>>
    /\ UNCHANGED <<settings_vars, codec_vars, diag_vars>>

\* handle_style_sheet: get_untracked_load_paths()
\*     .map_err(Error::LoadPathTracking)?, the push, Ok(ProcessedStyleSheet)
HandleTrack ==
    /\ hs_pc = "get_untracked_load_paths"
    /\ tracker_consulted' = TRUE
    /\ IF tracked.ok
       THEN handled' =
                Some([ok |-> TRUE,
                      untracked_load_paths |->
                          UntrackedLoadPaths(tracked.values,
                                             Unwrap(compiled).original_style_sheet),
                      css |-> Unwrap(compiled).css,
                      class_names |-> Unwrap(compiled).class_names])
       ELSE handled' = Some([ok |-> FALSE, error |-> "LoadPathTracking"])
    /\ hs_pc' = "handled"
    /\ UNCHANGED <<style_sheet, compile_succeeds, tracked, compiled, macro_output>>
    /\ UNCHANGED <<settings_vars, codec_vars, diag_vars>>

\* style_sheet!, style_sheet_values!, inline_style_sheet!,
\* inline_style_sheet_values!: match handle_style_sheet(..) { Ok / Err }
MacroEmit ==
    /\ hs_pc = "handled"
    /\ LET r == Unwrap(handled)
       IN  IF r.ok
           THEN macro_output' =
                    Some([compile_error |-> None,
                          STYLE_SHEET |-> Some(r.css),
                          class_names |-> Some(r.class_names),
                          include_bytes |->
                              create_include_bytes(r.untracked_load_paths)])
           ELSE macro_output' =
                    Some([compile_error |-> Some(r.error),
                          STYLE_SHEET |-> None,
                          class_names |-> None,
                          include_bytes |-> <<>>])
    /\ hs_pc' = "emitted"
    /\ UNCHANGED <<style_sheet, compile_succeeds, tracked, compiled,
                   tracker_consulted, handled>>
    /\ UNCHANGED <<settings_vars, codec_vars, diag_vars>>

(***************************************************************************)
(* to_compile_error.  The error is error_chain[1]; error i displays as     *)
(* error_chain[i] and its source() is error i + 1, when there is one.      *)
(***************************************************************************)
Messages == {"m1", "m2", "m3"}

ErrorChains == UNION {[1 .. n -> Messages] : n \in 1 .. MaxChain}

Display(chain, i) == chain[i]

\* std::error::Error::source
SourceSkippingLast(chain, i) == IF i + 1 < Len(chain) THEN Some(i + 1) ELSE None

Source(chain, i) == IF i < Len(chain) THEN Some(i + 1) ELSE None

DiagInit ==
    /\ error_chain \in ErrorChains
    /\ message = <<>>
    /\ curr_err = None
    /\ diag_pc = "format"

DiagIdle ==
    /\ error_chain = <<>>
    /\ message = <<>>
    /\ curr_err = None
    /\ diag_pc = "idle"

\* let mut message = format!("Error: {}", e); let mut curr_err = e.source();
DiagFormat ==
    /\ diag_pc = "format"
    /\ message' = <<<<"Error: ", Display(error_chain, 1)>>>>
    /\ curr_err' = Source(error_chain, 1)
    /\ diag_pc' = "caused_by"
    /\ UNCHANGED error_chain
    /\ UNCHANGED <<settings_vars, codec_vars, deps_vars>>

\* if curr_err.is_some() { message.push_str("\nCaused by:") }
DiagCausedBy ==
    /\ diag_pc = "caused_by"
    /\ message' = IF IsSome(curr_err)
                  THEN Append(message, <<"Caused by:">>)
                  ELSE message
    /\ diag_pc' = "while"
    /\ UNCHANGED <<error_chain, curr_err>>
    /\ UNCHANGED <<settings_vars, codec_vars, deps_vars>>

\* while let Some(current_error) = curr_err { push_str; curr_err = .source() }
DiagWhileBody ==
    /\ diag_pc = "while"
    /\ IsSome(curr_err)
    /\ message' =
           Append(message, <<"    ", Display(error_chain, Unwrap(curr_err))>>)
    /\ curr_err' = Source(error_chain, Unwrap(curr_err))
    /\ UNCHANGED <<error_chain, diag_pc>>
    /\ UNCHANGED <<settings_vars, codec_vars, deps_vars>>

\* the loop ends; quote! { compile_error!(#message); }
DiagWhileExit ==
    /\ diag_pc = "while"
    /\ curr_err = None
    /\ diag_pc' = "compile_error"
    /\ UNCHANGED <<error_chain, message, curr_err>>
    /\ UNCHANGED <<settings_vars, codec_vars, deps_vars>>

(***************************************************************************)
(* Specifications.                                                         *)
(***************************************************************************)
Init == SettingsInit /\ CodecIdle /\ DepsIdle /\ DiagIdle

Next == \E t \in Threads : Step(t)

SeqNext == \E t \in Threads : SeqStep(t)

Spec == Init /\ [][Next]_vars

SeqSpec == Init /\ [][SeqNext]_vars

SettingsIdle ==
    /\ manifest = ManifestError
    /\ debug_assertions = FALSE
    /\ TURF_SETTINGS = None
    /\ TURF_DEV_SETTINGS = None
    /\ pc = [t \in Threads |-> "idle"]
    /\ dev_settings_maybe = [t \in Threads |-> None]
    /\ prod_settings_maybe = [t \in Threads |-> None]
    /\ dev_settings = [t \in Threads |-> None]
    /\ prod_settings = [t \in Threads |-> None]
    /\ ret = [t \in Threads |-> Pending]
    /\ calls = 0
    /\ dev_loads = 0
    /\ prod_loads = 0
    /\ dev_resolved = {}
    /\ prod_resolved = {}
    /\ returned = {}

CodecNext == EncodeVersion

CodecSpecInit == SettingsIdle /\ CodecInit /\ DepsIdle /\ DiagIdle

CodecSpec == CodecSpecInit /\ [][CodecNext]_vars

DepsNext == HandleCompile \/ HandleTrack \/ MacroEmit

DepsSpecInit == SettingsIdle /\ CodecIdle /\ DepsInit /\ DiagIdle

DepsSpec == DepsSpecInit /\ [][DepsNext]_vars

DiagNext == DiagFormat \/ DiagCausedBy \/ DiagWhileBody \/ DiagWhileExit

\* to_compile_error is straight-line code and a loop that nothing suspends:
\* a step that can be taken is taken.
DiagSpecInit == SettingsIdle /\ CodecIdle /\ DepsIdle /\ DiagInit

DiagSpec == DiagSpecInit /\ [][DiagNext]_vars /\ WF_vars(DiagNext)

(***************************************************************************)
(* Properties.                                                             *)
(***************************************************************************)

\* C1: for every (dev profile, prod profile, is_dev), choose_settings returns
\* the dev profile when is_dev holds and the dev profile is present; otherwise
\* the prod profile when it is present and (is_dev is false or the dev profile
\* is absent); otherwise the default Settings.  With is_dev false and no prod
\* profile the result is the default, even when a dev profile is present.
C1_ChooseSettingsRule ==
    \A t \in Threads :
        IsOk(ret[t]) =>
            LET dev == dev_settings[t]
                prod == prod_settings[t]
                is_dev == debug_assertions
            IN  /\ ret[t][2] =
                      IF is_dev /\ IsSome(dev)
                      THEN Unwrap(dev)
                      ELSE IF (~is_dev \/ dev = None) /\ IsSome(prod)
                           THEN Unwrap(prod)
                           ELSE SettingsDefault
                /\ (~is_dev /\ IsSome(dev) /\ prod = None)
                       => ret[t][2] = SettingsDefault

\* A release-mode call that resolved a dev profile and no prod profile.
C1_Witness ==
    \E t \in Threads :
        /\ IsOk(ret[t])
        /\ ~debug_assertions
        /\ IsSome(dev_settings[t])
        /\ prod_settings[t] = None

\* C2: when several threads call Settings::get() concurrently while a slot
\* is still empty, no caller ends in the fatal "already been set" fault.
C2_NoFaultUnderConcurrentFirstAccess ==
    {t \in Threads : pc[t] = "panicked"} = {}

\* C3: over any sequence of Settings::get() calls the manifest is consulted
\* at most once for the development slot and at most once for the production
\* slot, whether or not the manifest defines the profile.
C3_ManifestConsultedAtMostOncePerSlot ==
    /\ dev_loads <= 1
    /\ prod_loads <= 1

\* C4: every successful Settings::get() returns the same Settings value as
\* the first one, and every resolution of a profile slot yields the same
\* value (present or absent, same contents) as the first resolution of it.
C4_ResolutionsAgree ==
    /\ Cardinality(returned) <= 1
    /\ Cardinality(dev_resolved) <= 1
    /\ Cardinality(prod_resolved) <= 1

\* Two calls have returned Ok, and the dev slot was filled by one manifest
\* read: the other call took the dev profile from the slot.
C4_Witness ==
    /\ \A t \in Threads : IsOk(ret[t])
    /\ IsSome(TURF_DEV_SETTINGS)
    /\ IsSome(TURF_SETTINGS)
    /\ dev_loads = 1
    /\ prod_loads = 1

\* C5: each of the two slots changes at most once, from empty to populated;
\* a populated slot is never changed or cleared by any step of any call.
C5_SlotsSetOnce ==
    [][ /\ IsSome(TURF_DEV_SETTINGS) => TURF_DEV_SETTINGS' = TURF_DEV_SETTINGS
        /\ IsSome(TURF_SETTINGS) => TURF_SETTINGS' = TURF_SETTINGS
        /\ TURF_DEV_SETTINGS' # TURF_DEV_SETTINGS => IsSome(TURF_DEV_SETTINGS')
        /\ TURF_SETTINGS' # TURF_SETTINGS => IsSome(TURF_SETTINGS') ]_vars

\* A set() was attempted on a populated slot (the caller faulted) and the
\* slot still holds the profile of the manifest.
C5_Witness ==
    \E t \in Threads :
        /\ pc[t] = "panicked"
        /\ IsSome(TURF_DEV_SETTINGS)
        /\ TURF_DEV_SETTINGS = manifest.turf_dev

\* The path lists of a file-based source that imports one partial: the
\* tracker reports the partial, and nothing but the partial and the primary.
OnePartialImported ==
    /\ style_sheet.kind = "File"
    /\ \E i \in DOMAIN tracked.values : tracked.values[i] = PartialPath
    /\ \A i \in DOMAIN tracked.values :
           tracked.values[i] \in {PartialPath, PrimaryPath}

Occurrences(list, path) == Cardinality({i \in DOMAIN list : list[i] = path})

HandledOk == IsSome(handled) /\ Unwrap(handled).ok

\* C6 as claimed: for a file-based source that imports one partial, the list
\* produced by handle_style_sheet holds exactly the primary path and the
\* partial path, each exactly once, whatever the tracker returns; for an
\* inline source the list is exactly the tracker's.
C6_EachDependencyExactlyOnce ==
    HandledOk =>
        LET list == Unwrap(handled).untracked_load_paths
        IN  /\ OnePartialImported =>
                   /\ Occurrences(list, PrimaryPath) = 1
                   /\ Occurrences(list, PartialPath) = 1
                   /\ \A i \in DOMAIN list : list[i] \in {PrimaryPath, PartialPath}
            /\ style_sheet.kind = "Inline" => list = tracked.values

\* C6 as amended: handle_style_sheet returns the tracker's list unchanged,
\* followed by the primary path for a file-based source and by nothing for an
\* inline source; so the primary and the partial occur exactly once each when
\* the tracker reports the partial once and does not report the primary.
C6_TrackerListThenPrimary ==
    HandledOk =>
        LET list == Unwrap(handled).untracked_load_paths
        IN  /\ style_sheet.kind = "File" =>
                   /\ Len(list) = Len(tracked.values) + 1
                   /\ SubSeq(list, 1, Len(tracked.values)) = tracked.values
                   /\ list[Len(list)] = style_sheet.content
            /\ style_sheet.kind = "Inline" => list = tracked.values
            /\ (style_sheet.kind = "File" /\ tracked.values = <<PartialPath>>) =>
                   /\ Occurrences(list, PrimaryPath) = 1
                   /\ Occurrences(list, PartialPath) = 1
                   /\ Len(list) = 2

\* A file-based source whose tracker reported the partial once.
C6_Witness ==
    /\ HandledOk
    /\ style_sheet.kind = "File"
    /\ tracked.values = <<PartialPath>>
    /\ Unwrap(handled).untracked_load_paths = <<PartialPath, PrimaryPath>>

\* C7: when compilation succeeds and the tracker fails, the failure arrives
\* on the tracking channel, not the compilation channel, and the compiled CSS
\* and class map remain available to the consumer; when compilation fails the
\* compile error is returned and the tracker is never consulted.
C7_TrackingFailureKeepsArtifact ==
    hs_pc = "emitted" =>
        LET out == Unwrap(macro_output)
        IN  /\ (compile_succeeds /\ ~tracked.ok) =>
                   /\ Unwrap(handled) = [ok |-> FALSE, error |-> "LoadPathTracking"]
                   /\ IsSome(out.STYLE_SHEET)
                   /\ IsSome(out.class_names)
            /\ ~compile_succeeds =>
                   /\ Unwrap(handled) = [ok |-> FALSE, error |-> "Turf"]
                   /\ ~tracker_consulted

VersionMajor == version.fields[1]

VersionMinor ==
    IF version.shape \in {"MajorMinor", "MajorMinorPatch"}
    THEN version.fields[2]
    ELSE 0

VersionPatch == IF version.shape = "MajorMinorPatch" THEN version.fields[3] ELSE 0

\* C8: the encoding of every BrowserVersion is
\* (major mod 256) * 65536 + (minor mod 256) * 256 + (patch mod 256), with the
\* missing components of the shorter shapes taken as 0; it is below 2^24;
\* Major(5) = 0x050000, MajorMinor(5,30) = 0x051E00,
\* MajorMinorPatch(1,2,3) = 0x010203.
C8_EncodingIsPackedTriple ==
    IsSome(encoded) =>
        /\ Unwrap(encoded) =
               (VersionMajor % 256) * 65536 + (VersionMinor % 256) * 256
               + (VersionPatch % 256)
        /\ Unwrap(encoded) >= 0
        /\ Unwrap(encoded) < 16777216
        /\ version = [shape |-> "Major", fields |-> <<5>>]
               => Unwrap(encoded) = 327680
        /\ version = [shape |-> "MajorSingleValueArray", fields |-> <<5>>]
               => Unwrap(encoded) = 327680
        /\ version = [shape |-> "MajorMinor", fields |-> <<5, 30>>]
               => Unwrap(encoded) = 335360
        /\ version = [shape |-> "MajorMinorPatch", fields |-> <<1, 2, 3>>]
               => Unwrap(encoded) = 66051

\* MajorMinor(5, 30) has been encoded.
C8_Witness ==
    /\ version = [shape |-> "MajorMinor", fields |-> <<5, 30>>]
    /\ encoded = Some(335360)

\* The diagnostic of a chain: the top-level message, the "Caused by:" header
\* when there is a cause, then one indented line for each cause, outermost first.
ExpectedDiagnostic(chain) ==
    <<<<"Error: ", chain[1]>>>>
    \o (IF Len(chain) > 1 THEN <<<<"Caused by:">>>> ELSE <<>>)
    \o [i \in 1 .. Len(chain) - 1 |-> <<"    ", chain[i + 1]>>]

\* C9: for an error with any finite chain of causes the diagnostic holds the
\* top-level message first, then every cause exactly once, outermost to
\* innermost, each on its own indented line; the "Caused by:" header is there
\* exactly when the chain has a cause; and the walk over the chain ends.
C9_DiagnosticShowsWholeChain ==
    /\ [](diag_pc = "compile_error" =>
             /\ message = ExpectedDiagnostic(error_chain)
             /\ Occurrences(message, <<"Caused by:">>) =
                    (IF Len(error_chain) > 1 THEN 1 ELSE 0)
             /\ Len(message) >= Len(error_chain))
    /\ <>(diag_pc = "compile_error")

\* The diagnostic of an error with two causes is complete.
C9_Witness ==
    /\ diag_pc = "compile_error"
    /\ Len(error_chain) = 3
    /\ Len(message) = 4

\* C10: in a sequential run of Settings::get() calls, with a failing manifest
\* read or an absent profile among them, the fatal "already been set" fault
\* is never reached: every set() on a slot finds it empty.
C10_NoFaultWhenSequential ==
    \A t \in Threads :
        /\ pc[t] # "panicked"
        /\ (pc[t] = "dev_set" /\ IsSome(dev_settings_maybe[t]))
               => TURF_DEV_SETTINGS = None
        /\ (pc[t] = "prod_set" /\ IsSome(prod_settings_maybe[t]))
               => TURF_SETTINGS = None

\* A later call reaches the end of its resolution with the dev slot filled
\* by an earlier call and the prod profile absent from the manifest.
C10_Witness ==
    \E t \in Threads :
        /\ pc[t] = "choose"
        /\ calls >= 2
        /\ IsSome(TURF_DEV_SETTINGS)
        /\ TURF_SETTINGS = None
        /\ prod_loads >= 2

====
